---- MODULE Spec2Model ----
(***************************************************************************)
(* A model of the extglob Parser (src/lib/extglob/parser.js, lines 1-368),  *)
(* of the snapdragon Renderer (src/snapdragon/lib/renderer.js) and of the   *)
(* middleware Parser (src/lib/extglob/parser.js, lines 370-621).            *)
(*                                                                         *)
(* Strings are sequences of one-character strings.  AST nodes live in an   *)
(* arena (heap); a node is named by its index in the arena, 0 names no     *)
(* node (a JavaScript undefined reference).                                *)
(***************************************************************************)
EXTENDS Integers, Sequences, FiniteSets, TLC

VARIABLES types, options, orig, input, parsed, column, errors, heap, stack,
          sets, count, pc, idx, prevInput, err, rendered, renderers,
          renderError, mw

\* The extglob Parser and the Renderer.
pvars == <<types, options, orig, input, parsed, column, errors, heap, stack,
           sets, count, pc, idx, prevInput, err, rendered, renderers,
           renderError>>

vars == <<pvars, mw>>

(***************************************************************************)
(* Bounds of the model.                                                    *)
(***************************************************************************)
\* Every input over Alphabet of at most MaxLen characters is parsed.
MaxLen == 3

\* The middleware Parser is followed until it has made MaxNodes nodes.
MaxNodes == 4

\* The characters the enumerated inputs are made of.
Alphabet == {"(", ")", "[", "]", "a"}

RECURSIVE StringsUpTo(_)
StringsUpTo(n) ==
    IF n = 0 THEN {<<>>}
    ELSE LET shorter == StringsUpTo(n - 1)
         IN  shorter \cup {Append(s, c) : s \in {t \in shorter : Len(t) = n - 1}, c \in Alphabet}

\* Longer inputs of interest, among them the examples the documentation names.
ExampleInputs ==
    { <<"(", "[", ")", "]">>,
      <<"(", "[", "]", ")">>,
      <<"(", "(", "a", ")", ")">>,
      <<"(", "a", "|", "b", ")">>,
      <<"(", "a", "|", "b">>,
      <<"(", "[", ")", "a">>,
      <<"[", "(", "]", "a", ")">>,
      <<"a", "\n", "a">>,
      <<"(", "\n", ")">> }

Inputs == StringsUpTo(MaxLen) \cup ExampleInputs

(***************************************************************************)
(* JavaScript values that the model has to tell apart.                     *)
(***************************************************************************)
\* `undefined` where a string is expected (a node without a val).
Undefined == <<"undefined">>

\* The result of regex.exec when the regex does not match.
Null == <<"null">>

\* No node: what Array.prototype.pop returns on an empty array.
NoNode == 0

(***************************************************************************)
(* Recognition rules.  A rule stands for an anchored regex over a          *)
(* character class: /^[chars]/, /^[chars]+/, /^[chars]?/ or /^[chars]*/.   *)
(***************************************************************************)
Rule(chars, multi, opt) == [chars |-> chars, multi |-> multi, opt |-> opt]

RECURSIVE PrefixLen(_, _)
\* Length of the longest prefix of str made of characters of chars.
PrefixLen(chars, str) ==
    IF str = <<>> \/ Head(str) \notin chars THEN 0
    ELSE 1 + PrefixLen(chars, Tail(str))

Min(a, b) == IF a < b THEN a ELSE b

\* regex.exec(this.input): m[0], or Null when the regex does not match.
Exec(rule, str) ==
    LET run == PrefixLen(rule.chars, str)
        len == IF rule.multi THEN run ELSE Min(run, 1)
    IN  IF len = 0 /\ ~rule.opt THEN Null ELSE SubSeq(str, 1, len)

\* String.prototype.substr(len)
Substr(str, len) == SubSeq(str, len + 1, Len(str))

(***************************************************************************)
(* Handler registrations: capture(type, regex) registers one handler,      *)
(* pair(type, open, close) registers type.open and then type.close.        *)
(***************************************************************************)
capture(type, rule) == <<[h |-> "capture", type |-> type, name |-> type, rule |-> rule]>>

pair(type, openRule, closeRule) ==
    << [h |-> "open",  type |-> type, name |-> type \o ".open",  rule |-> openRule],
       [h |-> "close", type |-> type, name |-> type \o ".close", rule |-> closeRule] >>

\* The keys of this.sets after construction.
SetKinds == {"single", "double", "bracket", "brace", "paren"}

ParenPair   == pair("paren",   Rule({"("}, FALSE, FALSE), Rule({")"}, FALSE, FALSE))
BracketPair == pair("bracket", Rule({"["}, FALSE, FALSE), Rule({"]"}, FALSE, FALSE))
TextCapture == capture("text", Rule({"a", "b", "|"}, TRUE, FALSE))

\* A pair whose close regex also matches the empty string: /^\)?/
ParenPairOptClose == pair("paren", Rule({"("}, FALSE, FALSE), Rule({")"}, FALSE, TRUE))

\* Two captures whose rules overlap, and a capture that may match nothing.
CharCapture == capture("char", Rule({"a"}, FALSE, FALSE))
StarCapture == capture("star", Rule({"|"}, TRUE, TRUE))

\* A capture of line ends: /^\n+/
LineCapture == capture("newline", Rule({"\n"}, TRUE, FALSE))

\* The registrations the model explores (this.types in registration order).
Configs ==
    { ParenPair \o BracketPair \o TextCapture,
      TextCapture \o BracketPair \o ParenPair,
      ParenPair \o TextCapture,
      ParenPairOptClose \o BracketPair \o TextCapture,
      CharCapture \o TextCapture \o StarCapture \o ParenPair,
      ParenPair \o TextCapture \o LineCapture }

(***************************************************************************)
(* AST nodes.                                                              *)
(***************************************************************************)
\* new Position(start, parser): the column snapshotted by position() and the
\* column of the parser when the node is made.
Position(start, col) == [start |-> start, end |-> col]

\* The root has no position.
NoPosition == Position(0, 0)

Node(type, val, prsd, rest, nodes, position, parent) ==
    [type |-> type, val |-> val, parsed |-> prsd, rest |-> rest,
     nodes |-> nodes, position |-> position, parent |-> parent]

RootId == 1
BosId  == 2

NoErr == [reason |-> "none", arg |-> "", thrown |-> "none"]

\* No renderer was found missing.
NoRenderError == [type |-> "", val |-> Undefined]

\* The middleware Parser after `new Parser(options)` and the calls of use().
MwFresh(fns, opts) ==
    [fns |-> fns, options |-> opts, original |-> <<>>, parsed |-> <<>>,
     input |-> <<>>, errors |-> <<>>, nodes |-> <<>>, lineno |-> 1,
     column |-> 1, pc |-> "ready", err |-> "none"]

\* The state after `new Parser(options)` and the registrations.
Init ==
    /\ types \in Configs
    /\ options \in [silent : BOOLEAN, strict : BOOLEAN]
    /\ orig = Undefined
    /\ input = <<>>
    /\ parsed = <<>>
    /\ column = 1
    /\ errors = <<>>
    /\ heap = << Node("root", Undefined, Undefined, Undefined, <<BosId>>, NoPosition, NoNode),
                 Node("bos", <<>>, Undefined, Undefined, <<>>, Position(1, 1), NoNode) >>
    /\ stack = <<>>
    /\ sets = [k \in SetKinds |-> <<>>]
    /\ count = 0
    /\ pc = "ready"
    /\ idx = 0
    /\ prevInput = <<>>
    /\ err = NoErr
    /\ rendered = <<>>
    /\ renderers = <<>>
    /\ renderError = NoRenderError
    /\ mw = MwFresh(<<>>, [silent |-> FALSE])

(***************************************************************************)
(* Parser methods.                                                         *)
(***************************************************************************)
\* prev() without the stack: the last of this.nodes.
prevOfNodes(st) == RootId

\* prev(): the top of the flattened stack, else the last of this.nodes,
\* which holds the root only.
prev(st) == IF Len(st) > 0 THEN st[Len(st)] ELSE RootId

\* push(type, token) without `this.stack.push(token)`.
pushOnSetsOnly(c, st, ss, type, token) ==
    [count |-> c + 1,
     stack |-> st,
     sets  |-> [ss EXCEPT ![type] = Append(@, token)]]

\* push(type, token) on the tracker <<count, stack, sets>>.
push(c, st, ss, type, token) ==
    [count |-> c + 1,
     stack |-> Append(st, token),
     sets  |-> [ss EXCEPT ![type] = Append(@, token)]]

\* Array.prototype.pop: the array without its last element (an empty array
\* stays empty).
ArrayPop(a) == IF a = <<>> THEN <<>> ELSE SubSeq(a, 1, Len(a) - 1)

\* What Array.prototype.pop returns.
ArrayLast(a) == IF a = <<>> THEN NoNode ELSE a[Len(a)]

\* pop(type) without `this.count--`.
popKeepsCount(c, st, ss, type) ==
    [count  |-> c,
     stack  |-> ArrayPop(st),
     sets   |-> [ss EXCEPT ![type] = ArrayPop(@)],
     result |-> ArrayLast(ss[type])]

\* pop(type) on the tracker; result is the token returned.
pop(c, st, ss, type) ==
    [count  |-> c - 1,
     stack  |-> ArrayPop(st),
     sets   |-> [ss EXCEPT ![type] = ArrayPop(@)],
     result |-> ArrayLast(ss[type])]

\* isType(type, node): `node && node.type === type`.  The arguments are
\* JavaScript values: [tag |-> "undefined"], [tag |-> "string", s |-> ..] or
\* [tag |-> "node", id |-> ..].  A string is truthy when it is not empty,
\* `.type` of a string is undefined.
JsUndefined == [tag |-> "undefined"]
JsString(s) == [tag |-> "string", s |-> s]
JsNode(id)  == IF id = NoNode THEN JsUndefined ELSE [tag |-> "node", id |-> id]

Truthy(v) ==
    CASE v.tag = "undefined" -> FALSE
      [] v.tag = "string"    -> v.s # ""
      [] v.tag = "node"      -> TRUE

TypeProperty(h, v) == IF v.tag = "node" THEN JsString(h[v.id].type) ELSE JsUndefined

\* isType with a test of its first argument too: `type && node && ...`.
isTypeGuarded(h, type, node) ==
    Truthy(type) /\ Truthy(node) /\ TypeProperty(h, node) = type

isType(h, type, node) == Truthy(node) /\ TypeProperty(h, node) = type

\* match(regex) with an updatePosition that leaves `this.parsed += str` out.
matchKeepsParsed(rule, inp, prsd, col) ==
    LET m == Exec(rule, inp)
    IN  IF m = Null
        THEN [m |-> Null, input |-> inp, parsed |-> prsd, column |-> col]
        ELSE [m |-> m, input |-> Substr(inp, Len(m)), parsed |-> prsd,
              column |-> col + Len(m)]

\* match(regex): the state of the cursor after the match, and m[0].
\* updatePosition(str, len) adds len to column, appends str to parsed and
\* consume(len) drops len characters of input.
match(rule, inp, prsd, col) ==
    LET m == Exec(rule, inp)
    IN  IF m = Null
        THEN [m |-> Null, input |-> inp, parsed |-> prsd, column |-> col]
        ELSE [m |-> m, input |-> Substr(inp, Len(m)), parsed |-> prsd \o m,
              column |-> col + Len(m)]

\* error(msg): with options.silent the error is pushed on this.errors and the
\* call returns; otherwise it is thrown.
error(opts, errs, col, reason, arg) ==
    IF opts.silent
    THEN [errors |-> Append(errs, [reason |-> reason, arg |-> arg, column |-> col]),
          thrown |-> FALSE]
    ELSE [errors |-> errs, thrown |-> TRUE]

\* A statement `throw`: the parse is aborted.
Throw(reason, arg, thrown) ==
    /\ pc' = "error"
    /\ err' = [reason |-> reason, arg |-> arg, thrown |-> thrown]

Running == pc = "next" /\ idx < Len(types)

Handler == types[idx + 1]

(***************************************************************************)
(* parse(input): the assignments before the loop.                          *)
(***************************************************************************)
parse ==
    /\ pc = "ready"
    /\ \E inp \in Inputs :
         /\ orig' = inp
         /\ input' = inp
    /\ pc' = "loop"
    /\ UNCHANGED <<types, options, parsed, column, errors, heap, stack, sets,
                   count, idx, prevInput, err, rendered>>
    /\ UNCHANGED <<renderers, renderError, mw>>

\* The test of `while (this.input)` and the start of next().
parseLoop ==
    /\ pc = "loop"
    /\ IF input # <<>>
       THEN /\ prevInput' = input
            /\ idx' = 0
            /\ pc' = "next"
       ELSE /\ pc' = "end"
            /\ UNCHANGED <<prevInput, idx>>
    /\ UNCHANGED <<types, options, orig, input, parsed, column, errors, heap,
                   stack, sets, count, err, rendered>>
    /\ UNCHANGED <<renderers, renderError, mw>>

\* The handler registered by capture(type, regex).
captureHandler ==
    /\ Running
    /\ Handler.h = "capture"
    /\ LET r    == match(Handler.rule, input, parsed, column)
           p    == prev(stack)
           id   == Len(heap) + 1
           node == Node(Handler.type, r.m, parsed, r.input, <<>>,
                        Position(column, r.column), p)
       IN  /\ input' = r.input
           /\ parsed' = r.parsed
           /\ column' = r.column
           /\ IF r.m = Null \/ r.m = <<>>
              THEN heap' = heap
              ELSE heap' = [Append(heap, node) EXCEPT ![p].nodes = Append(@, id)]
    /\ idx' = idx + 1
    /\ UNCHANGED <<types, options, orig, errors, stack, sets, count, pc,
                   prevInput, err, rendered>>
    /\ UNCHANGED <<renderers, renderError, mw>>

\* The handler registered by pair(type, openRegex, closeRegex) as type.open.
openHandler ==
    /\ Running
    /\ Handler.h = "open"
    /\ LET r      == match(Handler.rule, input, parsed, column)
           p      == prev(stack)
           openId == Len(heap) + 1
           id     == Len(heap) + 2
           open   == Node(Handler.name, r.m, Undefined, Undefined, <<>>,
                          Position(column, r.column), id)
           node   == Node(Handler.type, Undefined, parsed, r.input, <<openId>>,
                          Position(column, r.column), p)
           t      == push(count, stack, sets, Handler.type, id)
       IN  /\ input' = r.input
           /\ parsed' = r.parsed
           /\ column' = r.column
           /\ IF r.m = Null \/ r.m = <<>>
              THEN UNCHANGED <<heap, stack, sets, count>>
              ELSE /\ heap' = [Append(Append(heap, open), node)
                                 EXCEPT ![p].nodes = Append(@, id)]
                   /\ stack' = t.stack
                   /\ sets' = t.sets
                   /\ count' = t.count
    /\ idx' = idx + 1
    /\ UNCHANGED <<types, options, orig, errors, pc, prevInput, err, rendered>>
    /\ UNCHANGED <<renderers, renderError, mw>>

\* The handler registered by pair(type, openRegex, closeRegex) as type.close.
closeHandler ==
    /\ Running
    /\ Handler.h = "close"
    /\ LET r    == match(Handler.rule, input, parsed, column)
           t    == pop(count, stack, sets, Handler.type)
           open == t.result
           id   == Len(heap) + 1
           node == Node(Handler.name, r.m, Undefined, r.input, <<>>,
                        Position(column, r.column), open)
       IN  /\ input' = r.input
           /\ parsed' = r.parsed
           /\ column' = r.column
           /\ IF r.m = Null
              THEN UNCHANGED <<heap, stack, sets, count, pc, err>>
              ELSE /\ stack' = t.stack
                   /\ sets' = t.sets
                   /\ count' = t.count
                   /\ IF isType(heap, JsNode(open), JsString(Handler.type))
                      THEN /\ Throw("missing opening", Handler.type, "Error")
                           /\ heap' = heap
                      ELSE IF open = NoNode
                      THEN /\ Throw("TypeError", "nodes", "Error")
                           /\ heap' = heap
                      ELSE /\ heap' = [Append(heap, node)
                                         EXCEPT ![open].nodes = Append(@, id)]
                           /\ UNCHANGED <<pc, err>>
    /\ idx' = idx + 1
    /\ UNCHANGED <<types, options, orig, errors, prevInput, rendered>>
    /\ UNCHANGED <<renderers, renderError, mw>>

\* next() has run every handler: the progress test of parse.
parsePass ==
    /\ pc = "next"
    /\ idx = Len(types)
    /\ IF input # <<>> /\ prevInput = input
       THEN Throw("no parsers", Head(input), "Error")
       ELSE /\ pc' = "loop"
            /\ err' = err
    /\ UNCHANGED <<types, options, orig, input, parsed, column, errors, heap,
                   stack, sets, count, idx, prevInput, rendered>>
    /\ UNCHANGED <<renderers, renderError, mw>>

\* eos(): the end-of-string node, pushed on prev().nodes.
eos(h, st, col) ==
    LET p  == prev(st)
        id == Len(h) + 1
    IN  [Append(h, Node("eos", <<>>, Undefined, Undefined, <<>>, Position(col, col), NoNode))
           EXCEPT ![p].nodes = Append(@, id)]

\* The test of parse without the strict option: `this.stack.length`.
unterminatedAlways(st, opts) == Len(st) > 0

\* The test `this.stack.length && this.options.strict` of parse.
unterminated(st, opts) == Len(st) > 0 /\ opts.strict

\* parse after the loop: the strict test, eos() and the return.
parseEnd ==
    /\ pc = "end"
    /\ IF unterminated(stack, options)
       THEN LET node == stack[Len(stack)]
                e    == error(options, errors, column, "unterminated", heap[node].type)
            IN  /\ stack' = ArrayPop(stack)
                /\ errors' = e.errors
                /\ Throw("unterminated", heap[node].type,
                         IF e.thrown THEN "Error" ELSE "undefined")
                /\ heap' = heap
       ELSE /\ heap' = IF input = <<>> THEN eos(heap, stack, column) ELSE heap
            /\ pc' = "done"
            /\ UNCHANGED <<stack, errors, err>>
    /\ UNCHANGED <<types, options, orig, input, parsed, column, sets, count,
                   idx, prevInput, rendered>>
    /\ UNCHANGED <<renderers, renderError, mw>>

(***************************************************************************)
(* The Renderer.  A registered render function returns node.val, returns   *)
(* this.mapVisit(node.nodes), or returns '' without visiting the children. *)
(***************************************************************************)
\* The render functions registered on a fresh Renderer for the handlers ts:
\* the sentinels, the captures and the open and close nodes return node.val,
\* the containers return mapVisit(node.nodes).
Renderers(ts) ==
    [name \in {"bos", "eos"} \cup {ts[i].name : i \in 1..Len(ts)} |-> "val"]
      @@ [kind \in {ts[i].type : i \in {j \in 1..Len(ts) : ts[j].h = "open"}} |-> "children"]

\* The registration fns without set(name, ..).
Without(fns, name) == [n \in DOMAIN fns \ {name} |-> fns[n]]

\* The registration fns with a render function for the container kind that
\* returns '' and does not visit the children.
Skipping(fns, kind) == [fns EXCEPT ![kind] = "skip"]

\* The registrations the model renders with: the full one, and those with one
\* render function missing, one container skipped, or both.
RendererConfigs(ts) ==
    LET full   == Renderers(ts)
        kinds  == {k \in DOMAIN full : full[k] = "children"}
        bases  == {full} \cup {Skipping(full, k) : k \in kinds}
    IN  bases \cup {Without(f, n) : f \in bases, n \in DOMAIN full}

RECURSIVE visit(_, _, _, _), mapVisitFrom(_, _, _, _, _, _)

\* visit(node): the string the node's render function returns, the
\* renderer's `rendered` after the call, and the node the renderer of which
\* is missing (NoNode when none is).
visit(h, fns, id, out) ==
    IF h[id].type \notin DOMAIN fns
    THEN [buf |-> <<>>, rendered |-> out, missing |-> id]
    ELSE IF fns[h[id].type] = "val"
    THEN [buf |-> h[id].val, rendered |-> out, missing |-> NoNode]
    ELSE IF fns[h[id].type] = "skip"
    THEN [buf |-> <<>>, rendered |-> out, missing |-> NoNode]
    ELSE mapVisitFrom(h, fns, h[id].nodes, 1, <<>>, out)

\* The loop of mapVisit(nodes) from index i on, and `this.rendered += buf`.
mapVisitFrom(h, fns, nodes, i, buf, out) ==
    IF i > Len(nodes)
    THEN [buf |-> buf, rendered |-> out \o buf, missing |-> NoNode]
    ELSE LET v == visit(h, fns, nodes[i], out)
         IN  IF v.missing # NoNode
             THEN v
             ELSE mapVisitFrom(h, fns, nodes, i + 1, buf \o v.buf, v.rendered)

\* mapVisit(nodes) with a loop that starts at the second node.
mapVisitFromSecond(h, fns, nodes, out) == mapVisitFrom(h, fns, nodes, 2, <<>>, out)

mapVisit(h, fns, nodes, out) == mapVisitFrom(h, fns, nodes, 1, <<>>, out)

\* render(ast) on a fresh Renderer (rendered is '') on which the render
\* functions fns were registered.
render ==
    /\ pc = "done"
    /\ \E fns \in RendererConfigs(types) :
         LET v == mapVisit(heap, fns, heap[RootId].nodes, <<>>)
         IN  /\ renderers' = fns
             /\ rendered' = v.rendered
             /\ IF v.missing # NoNode
                THEN /\ Throw("renderer not registered", heap[v.missing].type, "Error")
                     /\ renderError' = [type |-> heap[v.missing].type,
                                        val  |-> heap[v.missing].val]
                ELSE /\ pc' = "rendered"
                     /\ UNCHANGED <<err, renderError>>
    /\ UNCHANGED <<types, options, orig, input, parsed, column, errors, heap,
                   stack, sets, count, idx, prevInput>>
    /\ UNCHANGED mw

(***************************************************************************)
(* The middleware Parser (parser.js, lines 370-621).  Its state is the     *)
(* record mw.  A middleware is a function of the documented shape           *)
(*   var pos = this.position(); var m = this.match(re);                     *)
(*   if (!m) return; return pos({type: .., val: m[0]});                     *)
(* or one that throws once its regex has matched.                           *)
(***************************************************************************)
Middleware(type, rule, throws) == [type |-> type, rule |-> rule, throws |-> throws]

Dot   == Middleware("dot",   Rule({"."}, FALSE, FALSE), FALSE)
Word  == Middleware("word",  Rule({"a"}, TRUE, FALSE), FALSE)
Line  == Middleware("line",  Rule({"\n"}, FALSE, FALSE), FALSE)
Text  == Middleware("text",  Rule({"a", "\n"}, TRUE, FALSE), FALSE)
Blank == Middleware("blank", Rule({"\n"}, TRUE, TRUE), FALSE)
Bad   == Middleware("bad",   Rule({"."}, FALSE, FALSE), TRUE)

\* The lists of middleware registered with use().
MwConfigs ==
    { <<Dot, Word, Line>>,
      <<Text, Dot>>,
      <<Word, Dot>>,
      <<Word, Blank>>,
      <<Bad, Word>> }

MwAlphabet == {"a", ".", "\n"}

RECURSIVE MwStringsUpTo(_)
MwStringsUpTo(n) ==
    IF n = 0 THEN {<<>>}
    ELSE LET shorter == MwStringsUpTo(n - 1)
         IN  shorter \cup {Append(t, c) : t \in {x \in shorter : Len(x) = n - 1}, c \in MwAlphabet}

MwInputs == MwStringsUpTo(MaxLen)

RECURSIVE lastIndexOf(_, _)
\* str.lastIndexOf(c), counted from 0; -1 when str has no c.
lastIndexOf(str, c) ==
    IF str = <<>> THEN -1
    ELSE IF str[Len(str)] = c THEN Len(str) - 1
    ELSE lastIndexOf(SubSeq(str, 1, Len(str) - 1), c)

RECURSIVE MatchCount(_, _)
\* The length of str.match(/c/g), 0 when it is null.
MatchCount(str, c) ==
    IF str = <<>> THEN 0
    ELSE (IF Head(str) = c THEN 1 ELSE 0) + MatchCount(Tail(str), c)

\* updatePosition(str, len) of the middleware Parser.
mwUpdatePosition(m, str, len) ==
    LET i == lastIndexOf(str, "\n")
    IN  [m EXCEPT !.lineno = @ + MatchCount(str, "\n"),
                  !.column = IF i # -1 THEN len - i ELSE @ + len]

\* advance(str)
advance(m, str) ==
    LET a == [m EXCEPT !.parsed = @ \o str]
        b == mwUpdatePosition(a, str, Len(str))
    IN  [b EXCEPT !.input = SubSeq(@, Len(str) + 1, Len(@))]

\* new Position(start, source, parser) of the middleware Parser.
MwPosition(start, m) ==
    [start |-> start, end |-> [line |-> m.lineno, column |-> m.column]]

\* this.error(msg) of the middleware Parser: with options.silent the error
\* is pushed on errors and the call returns, otherwise it is thrown.
mwError(m, msg) ==
    IF m.options.silent
    THEN [m EXCEPT !.errors = Append(@, msg), !.pc = "error", !.err = "undefined"]
    ELSE [m EXCEPT !.pc = "error", !.err = msg]

\* No node: run() has returned null.
NoMwNode == [type |-> "null", val |-> <<>>,
             position |-> [start |-> [line |-> 0, column |-> 0],
                           end   |-> [line |-> 0, column |-> 0]]]

RECURSIVE runFrom(_, _)
\* run() from the middleware i on: the parser after the call (with pc
\* "error" when the call has thrown) and the node returned.
runFrom(m, i) ==
    IF i > Len(m.fns) THEN [mw |-> m, node |-> NoMwNode]
    ELSE LET fn    == m.fns[i]
             start == [line |-> m.lineno, column |-> m.column]
             str   == Exec(fn.rule, m.input)
             after == advance(m, str)
         IN  IF str = Null THEN runFrom(m, i + 1)
             ELSE IF fn.throws
             THEN [mw |-> mwError(after, fn.type), node |-> NoMwNode]
             ELSE [mw   |-> after,
                   node |-> [type |-> fn.type, val |-> str,
                             position |-> MwPosition(start, after)]]

run(m) == runFrom(m, 1)

\* parse(input) of the middleware Parser up to its loop.
mwParse ==
    /\ mw.pc = "ready"
    /\ \E inp \in MwInputs :
         mw' = [mw EXCEPT !.original = @ \o inp, !.input = @ \o inp, !.pc = "loop"]
    /\ UNCHANGED pvars

\* One turn of `while (this.input.length && (node = this.run()))`, and the
\* return of parse when the test fails.
mwLoop ==
    /\ mw.pc = "loop"
    /\ Len(mw.nodes) < MaxNodes
    /\ IF mw.input = <<>>
       THEN mw' = [mw EXCEPT !.pc = "returned"]
       ELSE LET r == run(mw)
            IN  IF r.mw.pc = "error" THEN mw' = r.mw
                ELSE IF r.node = NoMwNode THEN mw' = [r.mw EXCEPT !.pc = "returned"]
                ELSE mw' = [r.mw EXCEPT !.nodes = Append(@, r.node)]
    /\ UNCHANGED pvars

Next ==
    \/ parse
    \/ parseLoop
    \/ captureHandler
    \/ openHandler
    \/ closeHandler
    \/ parsePass
    \/ parseEnd
    \/ render

Spec == Init /\ [][Next]_vars

\* The middleware Parser after construction, beside an extglob Parser on
\* which nothing is registered.
MwInit ==
    /\ types = <<>>
    /\ options = [silent |-> FALSE, strict |-> FALSE]
    /\ orig = Undefined
    /\ input = <<>>
    /\ parsed = <<>>
    /\ column = 1
    /\ errors = <<>>
    /\ heap = << Node("root", Undefined, Undefined, Undefined, <<BosId>>, NoPosition, NoNode),
                 Node("bos", <<>>, Undefined, Undefined, <<>>, Position(1, 1), NoNode) >>
    /\ stack = <<>>
    /\ sets = [k \in SetKinds |-> <<>>]
    /\ count = 0
    /\ pc = "idle"
    /\ idx = 0
    /\ prevInput = <<>>
    /\ err = NoErr
    /\ rendered = <<>>
    /\ renderers = <<>>
    /\ renderError = NoRenderError
    /\ mw \in {MwFresh(fns, opts) : fns \in MwConfigs, opts \in [silent : BOOLEAN]}

MwNext ==
    \/ mwParse
    \/ mwLoop

MwSpec == MwInit /\ [][MwNext]_vars

(***************************************************************************)
(* Notions the properties are stated in.                                   *)
(***************************************************************************)
Range(f) == {f[i] : i \in DOMAIN f}

\* The kinds a pair is registered for.
PairKinds(ts) == {ts[i].type : i \in {j \in 1..Len(ts) : ts[j].h = "open"}}

\* The containers of the tree h.
Containers(h) == {id \in 1..Len(h) : h[id].type \in SetKinds}

\* The container id has received its close node.
HasClose(h, id) ==
    \E i \in 1..Len(h[id].nodes) : h[h[id].nodes[i]].type = h[id].type \o ".close"

\* The containers that were opened and not closed.
Unclosed(h) == {id \in Containers(h) : ~HasClose(h, id)}

RECURSIVE InTree(_, _)
\* The node id is reached from the root through the children lists.
InTree(h, id) ==
    \/ id = RootId
    \/ \E p \in 1..Len(h) : id \in Range(h[p].nodes) /\ p < id /\ InTree(h, p)

\* The handler about to run is the close handler of kind k and its rule
\* matches the remaining input.
CloseMatches(k) ==
    /\ Running
    /\ Handler.h = "close"
    /\ Handler.type = k
    /\ Exec(Handler.rule, input) # Null

\* The parse was aborted by a throw.
ParseFailed == pc = "error" /\ err.reason # "renderer not registered"

\* parse has returned the AST.
ParseReturned == pc \in {"done", "rendered"} \/ (pc = "error" /\ ~ParseFailed)

\* The open and close rules of the pairs of ts match at least one character
\* and no other rule matches a character of theirs.
ProperPairs(ts) ==
    \A i \in 1..Len(ts) :
        ts[i].h # "capture" =>
            /\ ~ts[i].rule.opt
            /\ \A j \in 1..Len(ts) : j # i => ts[j].rule.chars \cap ts[i].rule.chars = {}

\* Some rule of ts matches every character of str.
AllMatched(ts, str) ==
    \A i \in 1..Len(str) : \E j \in 1..Len(ts) : str[i] \in ts[j].rule.chars

\* The kind of the pair of ts of which c is the open (h = "open") or the
\* close (h = "close") character, "" when there is none.
KindOf(ts, h, c) ==
    LET is == {i \in 1..Len(ts) : ts[i].h = h /\ c \in ts[i].rule.chars}
    IN  IF is = {} THEN "" ELSE ts[CHOOSE i \in is : TRUE].type

RECURSIVE BalancedFrom(_, _, _)
\* The pairs of ts are balanced and properly nested in str, read with the
\* kinds in open already opened.
BalancedFrom(ts, str, open) ==
    IF str = <<>> THEN open = <<>>
    ELSE IF KindOf(ts, "open", Head(str)) # ""
    THEN BalancedFrom(ts, Tail(str), Append(open, KindOf(ts, "open", Head(str))))
    ELSE IF KindOf(ts, "close", Head(str)) # ""
    THEN /\ open # <<>>
         /\ open[Len(open)] = KindOf(ts, "close", Head(str))
         /\ BalancedFrom(ts, Tail(str), SubSeq(open, 1, Len(open) - 1))
    ELSE BalancedFrom(ts, Tail(str), open)

\* The input being parsed is made of balanced pairs and captured text.
BalancedInput ==
    /\ orig # Undefined
    /\ ProperPairs(types)
    /\ AllMatched(types, orig)
    /\ BalancedFrom(types, orig, <<>>)

RECURSIVE SumLen(_, _)
\* The sum of the lengths of the stacks ss[k], k in ks.
SumLen(ss, ks) ==
    IF ks = {} THEN 0
    ELSE LET k == CHOOSE x \in ks : TRUE
         IN  Len(ss[k]) + SumLen(ss, ks \ {k})

(***************************************************************************)
(* Properties.                                                             *)
(***************************************************************************)
\* C1: when the close rule of kind k matches while sets[k] is empty, the
\* close handler throws the "missing opening" error for k, the parse is
\* aborted and no node is made, whatever options.silent is and whatever
\* other kinds are open.
C1_CloseWithoutOpenThrows ==
    [][\A k \in SetKinds :
         (CloseMatches(k) /\ sets[k] = <<>>) =>
             /\ pc' = "error"
             /\ err' = [reason |-> "missing opening", arg |-> k, thrown |-> "Error"]
             /\ heap' = heap
             /\ errors' = errors]_vars

\* A close of a kind without an open was met in silent mode while another
\* kind was open.
C1_Witness ==
    /\ pc = "error"
    /\ err.reason = "missing opening"
    /\ options.silent
    /\ sets[err.arg] = <<>>
    /\ \E k \in SetKinds : sets[k] # <<>>

\* C2: when the close rule of kind k matches while the top of the flattened
\* stack is a container of another kind, the close handler throws the
\* "missing opening" error, the parse is aborted and no close node is made.
C2_CloseOfOtherKindThrows ==
    [][\A k \in SetKinds :
         (CloseMatches(k) /\ stack # <<>> /\ heap[stack[Len(stack)]].type # k) =>
             /\ pc' = "error"
             /\ err'.reason = "missing opening"
             /\ heap' = heap]_vars

\* C3: a pass of the loop of parse (one call of next()) either shortens the
\* remaining input or throws the "no parsers registered for" error.
C3_PassShortensOrNoParsers ==
    /\ (pc = "loop" /\ idx = Len(types)) => Len(input) < Len(prevInput)
    /\ (ParseFailed /\ err.reason # "unterminated") =>
           \/ err.reason = "no parsers" /\ err.arg = Head(input)
           \/ Len(input) < Len(prevInput)

\* C4: when the input is consumed while a container is unclosed, parse
\* throws the unterminated error with options.strict, and without it returns
\* the AST, in which the unclosed containers are present and still have no
\* close node.
C4_UnterminatedAtEnd ==
    [][(pc = "end" /\ Unclosed(heap) # {}) =>
           IF options.strict
           THEN /\ pc' = "error"
                /\ err'.reason = "unterminated"
           ELSE /\ pc' = "done"
                /\ err' = NoErr
                /\ \A c \in Unclosed(heap) : c \in Unclosed(heap') /\ InTree(heap', c)]_vars

\* The strict parse of "(a|b" was aborted at the end of the input.
C4_Witness ==
    /\ pc = "error"
    /\ err.reason = "unterminated"
    /\ options.strict
    /\ orig = <<"(", "a", "|", "b">>
    /\ input = <<>>
    /\ Unclosed(heap) # {}

\* C5: after parsing an input of balanced pairs and captured text and
\* rendering the AST with a fresh Renderer, rendered is the input.
C5_RoundTrip ==
    (pc = "rendered" /\ renderers = Renderers(types) /\ BalancedInput) =>
        rendered = orig

C7_EosLastChildOfRoot ==
    pc = "done" =>
        /\ Cardinality({id \in 1..Len(heap) : heap[id].type = "eos"}) = 1
        /\ heap[heap[RootId].nodes[Len(heap[RootId].nodes)]].type = "eos"

\* C8: while no error was thrown, the top of a non-empty flattened stack is
\* the container opened last among those that have no close node.
C8_TopIsInnermostUnclosed ==
    (~ParseFailed /\ stack # <<>>) =>
        /\ stack[Len(stack)] \in Unclosed(heap)
        /\ \A c \in Unclosed(heap) : c <= stack[Len(stack)]

\* The flattened stack, the stacks of the kinds and count agree.
LockStep ==
    /\ Len(stack) = SumLen(sets, SetKinds)
    /\ Len(stack) = count
    /\ count >= 0

\* C9: while no error was thrown, the length of the flattened stack is the
\* sum of the lengths of the stacks of the kinds and is count, which is not
\* negative; a step pushes one node on the flattened stack and on the stack
\* of one kind, or pops one element from each, or leaves them alone.
C9_LockStep ==
    [][~ParseFailed' =>
          /\ LockStep'
          /\ \/ stack' = stack /\ sets' = sets
             \/ \E k \in SetKinds, n \in 1..Len(heap') :
                    /\ stack' = Append(stack, n)
                    /\ sets' = [sets EXCEPT ![k] = Append(@, n)]
             \/ \E k \in SetKinds :
                    /\ stack # <<>> /\ sets[k] # <<>>
                    /\ stack' = SubSeq(stack, 1, Len(stack) - 1)
                    /\ sets' = [sets EXCEPT ![k] = SubSeq(@, 1, Len(@) - 1)]]_vars

\* Two kinds are open after a container was closed.
C9_Witness ==
    /\ ~ParseFailed
    /\ count = 2
    /\ sets["paren"] # <<>>
    /\ sets["bracket"] # <<>>
    /\ \E c \in Containers(heap) : HasClose(heap, c)

\* C10: the node made by a capture or an open handler becomes the last child
\* of the top of the flattened stack, or of the root when the stack is empty,
\* and that node is its parent; an open handler also pushes the node, which
\* is then the target of the following nodes.
C10_AppendedToNearestOpen ==
    [][(Running /\ Handler.h \in {"capture", "open"} /\ Len(heap') > Len(heap)) =>
          LET target == IF stack # <<>> THEN stack[Len(stack)] ELSE RootId
              id     == Len(heap')
          IN  /\ heap'[id].type = Handler.type
              /\ heap'[target].nodes = Append(heap[target].nodes, id)
              /\ heap'[id].parent = target
              /\ IF Handler.h = "open"
                 THEN /\ stack' = Append(stack, id)
                      /\ prev(stack') = id
                 ELSE stack' = stack]_vars

\* A captured node and a container were appended to an open container.
C10_Witness ==
    \E c \in Containers(heap) :
        /\ \E i \in 1..Len(heap[c].nodes) : heap[heap[c].nodes[i]].type = "text"
        /\ \E i \in 1..Len(heap[c].nodes) : heap[heap[c].nodes[i]].type \in SetKinds
        /\ c \in Range(stack)

\* Every node of h but the root has a parent, and is a child of that parent
\* and of no other node.
ParentsAgree(h) ==
    \A id \in 1..Len(h) :
        id # RootId =>
            /\ h[id].parent # NoNode
            /\ \A p \in 1..Len(h) : (id \in Range(h[p].nodes)) <=> (p = h[id].parent)

\* s is a prefix of t.
IsPrefix(s, t) == Len(s) <= Len(t) /\ SubSeq(t, 1, Len(s)) = s

\* C11: in the AST parse returns every node but the root has one parent, the
\* node whose children list holds it; a parent once set is not changed and
\* children lists are only appended to.
C11_OneParentAppendOnly ==
    /\ [](pc = "done" => ParentsAgree(heap))
    /\ [][\A id \in 1..Len(heap) :
              /\ Len(heap') >= Len(heap)
              /\ heap[id].parent # NoNode => heap'[id].parent = heap[id].parent
              /\ IsPrefix(heap[id].nodes, heap'[id].nodes)]_vars

\* C16: the kind the strict unterminated error reports is the kind of a
\* container that has no close node at the end of the input.
C16_ReportedKindIsUnclosed ==
    (pc = "error" /\ err.reason = "unterminated") =>
        \E c \in Unclosed(heap) : heap[c].type = err.arg

\* C20: a call of a capture, open or close handler that consumes no
\* character leaves input, parsed, column, the stacks, count, the errors and
\* the AST unchanged.
C20_NoConsumptionNoChange ==
    [][(Running /\ input' = input) =>
           /\ parsed' = parsed
           /\ column' = column
           /\ stack' = stack
           /\ sets' = sets
           /\ count' = count
           /\ errors' = errors
           /\ heap' = heap]_vars

RECURSIVE PreOrder(_, _), PreOrderAll(_, _)
\* The node id and its descendants, every node before its children.
PreOrder(h, id) == <<id>> \o PreOrderAll(h, h[id].nodes)

\* The nodes ids and their descendants in document order.
PreOrderAll(h, ids) ==
    IF ids = <<>> THEN <<>> ELSE PreOrder(h, Head(ids)) \o PreOrderAll(h, Tail(ids))

\* C15: in the AST parse returns, listed in document order, the start of
\* every node is not before the end of the node listed before it.
C15_PositionsMonotone ==
    pc = "done" =>
        LET l == PreOrderAll(heap, heap[RootId].nodes)
        IN  \A i \in 2..Len(l) :
                heap[l[i]].position.start >= heap[l[i - 1]].position.end

\* The text the node id of h was made from: its val, and for a container the
\* val of its open node.
MatchedText(h, id) ==
    IF h[id].val # Undefined THEN h[id].val ELSE h[h[id].nodes[1]].val

\* C19: during a parse the consumed text followed by the remaining input is
\* the original input, column is 1 plus the length of the consumed text, and
\* for every node made by a capture or an open handler parsed, the matched
\* text and rest make up the original input.
C19_ConsumedRemainingPartition ==
    orig # Undefined =>
        /\ parsed \o input = orig
        /\ column = 1 + Len(parsed)
        /\ \A id \in 1..Len(heap) :
               heap[id].parsed # Undefined =>
                   heap[id].parsed \o MatchedText(heap, id) \o heap[id].rest = orig

\* A captured node and a container were made in the middle of the input.
C19_Witness ==
    /\ input # <<>>
    /\ \E id \in 1..Len(heap) :
           /\ heap[id].type = "text"
           /\ heap[id].parsed # <<>>
           /\ heap[id].rest # <<>>
    /\ \E c \in Containers(heap) : heap[c].parsed # <<>> /\ heap[c].rest # <<>>

\* The index of the first handler of ts whose rule matches a non-empty head
\* of str, 0 when there is none.
FirstMatch(ts, str) ==
    LET is == {i \in 1..Len(ts) : Exec(ts[i].rule, str) \notin {Null, <<>>}}
    IN  IF is = {} THEN 0 ELSE CHOOSE i \in is : \A j \in is : i <= j

RECURSIVE RefTokens(_, _)
\* The tokens of the loop that takes the first handler that matches and
\* starts again from the first handler.
RefTokens(ts, str) ==
    IF str = <<>> \/ FirstMatch(ts, str) = 0 THEN <<>>
    ELSE LET h == ts[FirstMatch(ts, str)]
             m == Exec(h.rule, str)
         IN  <<[type |-> h.name, val |-> m]>> \o RefTokens(ts, Substr(str, Len(m)))

RECURSIVE BuiltTokens(_, _, _)
\* The nodes of h from index i on that the handlers of ts made, in the order
\* they were made (a container is accounted for by its open node).
BuiltTokens(ts, h, i) ==
    IF i > Len(h) THEN <<>>
    ELSE IF h[i].type \in {ts[j].name : j \in 1..Len(ts)}
    THEN <<[type |-> h[i].type, val |-> h[i].val]>> \o BuiltTokens(ts, h, i + 1)
    ELSE BuiltTokens(ts, h, i + 1)

\* C12: the tokens parse has built are those of the loop that takes the
\* earliest registered handler that matches and restarts from the first
\* handler after every match (stated for close rules that match at least one
\* character).
C12_EarliestHandlerWins ==
    (pc = "done" /\ \A i \in 1..Len(types) : types[i].h = "close" => ~types[i].rule.opt) =>
        BuiltTokens(types, heap, 1) = RefTokens(types, orig)

\* C17: error(msg) called with options.silent adds one error to the errors
\* list and the operation that called it goes on; without options.silent it
\* throws and the errors list is unchanged.
C17_SilentCollectsElseThrows ==
    [][(pc = "end" /\ unterminated(stack, options)) =>
           IF options.silent
           THEN /\ Len(errors') = Len(errors) + 1
                /\ IsPrefix(errors, errors')
                /\ pc' # "error"
           ELSE /\ pc' = "error"
                /\ errors' = errors]_vars

RECURSIVE LastIndexOf(_, _)
\* The place of the last c in str, 0 when str has none.
LastIndexOf(str, c) ==
    IF str = <<>> THEN 0
    ELSE IF str[Len(str)] = c THEN Len(str)
    ELSE LastIndexOf(SubSeq(str, 1, Len(str) - 1), c)

\* The column after consuming the text t at column col: 1 plus the number
\* of characters after the last line end of t, col plus the length of t when
\* t has no line end.
ColumnAfter(col, t) ==
    IF LastIndexOf(t, "\n") # 0
    THEN 1 + (Len(t) - LastIndexOf(t, "\n"))
    ELSE col + Len(t)

\* C18: when a handler of the extglob Parser consumes the text t, column
\* becomes 1 plus the number of characters of t after its last line end, or
\* the column before plus the length of t when t has no line end.
C18_ColumnResetsAtNewline ==
    [][(Running /\ Len(input') < Len(input)) =>
           column' = ColumnAfter(column, SubSeq(input, 1, Len(input) - Len(input')))]_vars

RECURSIVE Visited(_, _, _)
\* The nodes ids and, below every one of them that has a render function
\* that visits its children, the children, in document order.
Visited(h, fns, ids) ==
    IF ids = <<>> THEN <<>>
    ELSE LET id == Head(ids)
             below == IF h[id].type \in DOMAIN fns /\ fns[h[id].type] = "children"
                      THEN Visited(h, fns, h[id].nodes)
                      ELSE <<>>
         IN  <<id>> \o below \o Visited(h, fns, Tail(ids))

\* The places in the list l of the nodes without a render function.
Unregistered(h, fns, l) == {i \in 1..Len(l) : h[l[i]].type \notin DOMAIN fns}

\* render has thrown the error of a missing render function.
RenderFailed == pc = "error" /\ err.reason = "renderer not registered"

\* C14 as claimed: render throws exactly when some node of the AST, at any
\* depth, has a kind without a render function, and the error names the kind
\* and the val of such a node.
C14_RaisesIffAnyUnregistered ==
    /\ pc = "rendered" =>
           \A id \in 2..Len(heap) : heap[id].type \in DOMAIN renderers
    /\ RenderFailed =>
           \E id \in 2..Len(heap) :
               /\ heap[id].type \notin DOMAIN renderers
               /\ renderError = [type |-> heap[id].type, val |-> heap[id].val]

\* C14: render throws exactly when a node without a render function is
\* visited, that is a top-level node or a child of a visited container whose
\* render function visits its children, and the error names the kind and the
\* val of the first such node in document order.
C14_RaisesIffVisitedUnregistered ==
    LET l == Visited(heap, renderers, heap[RootId].nodes)
        u == Unregistered(heap, renderers, l)
    IN  /\ pc = "rendered" => u = {}
        /\ RenderFailed =>
               /\ u # {}
               /\ LET first == l[CHOOSE i \in u : \A j \in u : i <= j]
                  IN  renderError = [type |-> heap[first].type, val |-> heap[first].val]

\* render has thrown for a node inside a container, after rendering a node
\* before it.
C14_Witness ==
    /\ RenderFailed
    /\ renderError.type = "text"
    /\ \E id \in 2..Len(heap) :
           /\ heap[id].type = "text"
           /\ heap[id].parent # RootId
    /\ \A id \in 2..Len(heap) : heap[id].type = "text" => heap[id].parent # RootId

\* C13: the middleware parse never returns normally while input remains:
\* when no middleware matches the remaining input it throws.
C13_NoMatchIsFatal ==
    mw.pc = "returned" => mw.input = <<>>
====
